---- MODULE Spec2Model ----
(***************************************************************************)
(* Model of src/app.py: the Flask invoices-analytics service with its      *)
(* "chat-with-data" SQL generator/runner.                                  *)
(*                                                                         *)
(* Python strings are modelled as sequences of one-character strings, so   *)
(* that substring search, trimming, case folding and the regular           *)
(* expressions of the source are computed character by character.          *)
(***************************************************************************)
EXTENDS Integers, Sequences, FiniteSets, TLC

VARIABLES
    arg,            \* argument handed to the pure function under check
    ret,            \* its return value
    called,         \* whether the function has been applied
    use_llm,        \* whether the LLM path was configured at startup
    pc,             \* position of the request (or call) being served
    route,          \* the handler (or function) serving it
    args,           \* request.args: the query parameters supplied, name -> text
    payload,        \* the kind of body posted to /chat-with-data
    raw_output,     \* chat_with_data: what sql_generator.invoke returned
    sql_text,       \* chat_with_data: what extract_sql returned
    validated,      \* the calls of is_select_only so far: statement and verdict
    ran,            \* the statements handed to sql_runner_tool.invoke so far
    reached,        \* the steps of chat_with_data this request has reached
    where_clauses,  \* invoices: the predicates appended so far
    params,         \* invoices: the bound arguments appended so far
    inv_sql,        \* invoices: the statement template (the local sql)
    conn,           \* the connection: "None", "open" or "closed"
    cur,            \* the cursor: "None", "open" or "closed"
    queries_left,   \* statements the handler has still to execute
    outcome,        \* how control left: "response", "returned" or "raised"
    status,         \* HTTP status of the response (0: none)
    body_sql,       \* the generated_sql field of the response body, if any
    cause           \* what failed or was rejected in this request

fnVars == <<arg, ret, called>>
reqVars == <<pc, route, args, payload, raw_output, sql_text, validated, ran,
             reached, where_clauses, params, inv_sql, conn, cur, queries_left,
             outcome, status, body_sql, cause>>
vars == <<fnVars, use_llm, reqVars>>

(***************************************************************************)
(* Bounds of the model.                                                    *)
(***************************************************************************)
\* number of fragments a candidate statement is concatenated from
MaxStmtFrags == 4
\* number of fragments a raw model output is concatenated from
MaxRawFrags == 4
\* number of fragments an output of the SQL generator is concatenated from
MaxGenFrags == 3

(***************************************************************************)
(* Python str primitives.                                                  *)
(***************************************************************************)
Min(S) == CHOOSE x \in S : \A y \in S : x <= y
Max(S) == CHOOSE x \in S : \A y \in S : x >= y

UpperLetters ==
    <<"A","B","C","D","E","F","G","H","I","J","K","L","M",
      "N","O","P","Q","R","S","T","U","V","W","X","Y","Z">>
LowerLetters ==
    <<"a","b","c","d","e","f","g","h","i","j","k","l","m",
      "n","o","p","q","r","s","t","u","v","w","x","y","z">>

\* the backtick character (a string literal of the module cannot hold it)
bt == "BACKTICK"

\* str.lower() on one character
LowerChar(c) ==
    IF \E i \in DOMAIN UpperLetters : UpperLetters[i] = c
    THEN LowerLetters[CHOOSE i \in DOMAIN UpperLetters : UpperLetters[i] = c]
    ELSE c

\* str.lower()
lower(s) == IF s = <<>> THEN <<>> ELSE [i \in 1..Len(s) |-> LowerChar(s[i])]

\* the characters str.strip() and the regex class \s treat as whitespace
Whitespace == {" ", "\t", "\n", "\r", "\f"}

\* str.strip(chars): drop leading and trailing characters that are in cs
StripSet(s, cs) ==
    LET keep == {i \in DOMAIN s : s[i] \notin cs}
    IN  IF keep = {} THEN <<>> ELSE SubSeq(s, Min(keep), Max(keep))

\* str.rstrip(chars)
RStripSet(s, cs) ==
    LET keep == {i \in DOMAIN s : s[i] \notin cs}
    IN  IF keep = {} THEN <<>> ELSE SubSeq(s, 1, Max(keep))

\* str.strip()
strip(s) == StripSet(s, Whitespace)

\* s[i:].startswith(p), with i a 1-based position
StartsWithAt(s, i, p) ==
    /\ i + Len(p) - 1 <= Len(s)
    /\ \A k \in 1..Len(p) : s[i + k - 1] = p[k]

\* s.startswith(p)
startswith(s, p) == StartsWithAt(s, 1, p)

\* p in s
Contains(s, p) == \E i \in 1..(Len(s) + 1) : StartsWithAt(s, i, p)

\* s.count(c) for a one-character c
count(s, c) == Cardinality({i \in DOMAIN s : s[i] = c})

\* s.rfind(c) for a one-character c: 0-based index of the last c, or -1
rfind(s, c) ==
    LET at == {i \in DOMAIN s : s[i] = c}
    IN  IF at = {} THEN -1 ELSE Max(at) - 1

\* concatenation of a sequence of strings
RECURSIVE Concat(_)
Concat(ss) == IF ss = <<>> THEN <<>> ELSE Head(ss) \o Concat(Tail(ss))

\* all sequences of at most n elements of S
RECURSIVE SeqsUpTo(_, _)
SeqsUpTo(S, n) ==
    IF n = 0 THEN {<<>>}
    ELSE LET shorter == SeqsUpTo(S, n - 1)
         IN  shorter \cup {Append(q, x) : q \in shorter, x \in S}


(***************************************************************************)
(* A server that is serving no request, and a function that is not called. *)
(***************************************************************************)
NoArgs == [k \in {} |-> <<>>]

Idle ==
    /\ pc = "idle"
    /\ route = "none"
    /\ args = NoArgs
    /\ payload = "none"
    /\ raw_output = <<>>
    /\ sql_text = <<>>
    /\ validated = <<>>
    /\ ran = <<>>
    /\ reached = {}
    /\ where_clauses = <<>>
    /\ params = <<>>
    /\ inv_sql = <<>>
    /\ conn = "None"
    /\ cur = "None"
    /\ queries_left = 0
    /\ outcome = "none"
    /\ status = 0
    /\ body_sql = <<>>
    /\ cause = "none"

NotCalled ==
    /\ arg = <<>>
    /\ ret = "none"
    /\ called = FALSE

(***************************************************************************)
(* SQL Safety Validator: is_select_only.                                   *)
(***************************************************************************)
DANGEROUS_SQL_KEYWORDS == <<
    <<"i","n","s","e","r","t"," ">>,
    <<"u","p","d","a","t","e"," ">>,
    <<"d","e","l","e","t","e"," ">>,
    <<"d","r","o","p"," ">>,
    <<"t","r","u","n","c","a","t","e"," ">>,
    <<"a","l","t","e","r"," ">>,
    <<"c","r","e","a","t","e"," ">>,
    <<"g","r","a","n","t"," ">>,
    <<"r","e","v","o","k","e"," ">>,
    <<"r","e","p","l","a","c","e"," ">>,
    <<"b","a","c","k","u","p"," ">>,
    <<"r","e","s","t","o","r","e"," ">>,
    <<"c","o","p","y"," ">>,
    <<"m","e","r","g","e"," ">>,
    <<"e","x","e","c","u","t","e"," ">> >>

kw_select == <<"s","e","l","e","c","t">>
kw_with == <<"w","i","t","h">>

\* lines 165-171: the deny-list loop and the final prefix test, on the
\* lower-cased statement s
KeywordAndPrefixCheck(s) ==
    IF \E k \in DOMAIN DANGEROUS_SQL_KEYWORDS : Contains(s, DANGEROUS_SQL_KEYWORDS[k])
    THEN FALSE
    ELSE startswith(s, kw_select) \/ startswith(s, kw_with)

\* is_select_only without the test of line 157 (more than one semicolon)
is_select_only_NoCountCheck(sql) ==
    IF sql = <<>> THEN FALSE
    ELSE LET s == lower(strip(sql))
         IN  IF count(s, ";") > 0
             THEN IF rfind(s, ";") # Len(s) - 1 THEN FALSE
                  ELSE KeywordAndPrefixCheck(strip(RStripSet(s, {";"})))
             ELSE KeywordAndPrefixCheck(s)

\* is_select_only without the .lower() of line 151
is_select_only_CaseSensitive(sql) ==
    IF sql = <<>> THEN FALSE
    ELSE LET s == strip(sql)
         IN  IF count(s, ";") > 0
             THEN IF count(s, ";") > 1 THEN FALSE
                  ELSE IF rfind(s, ";") # Len(s) - 1 THEN FALSE
                  ELSE KeywordAndPrefixCheck(strip(RStripSet(s, {";"})))
             ELSE KeywordAndPrefixCheck(s)

\* lines 144-163: the empty test and the semicolon rule, then the checks above
is_select_only(sql) ==
    IF sql = <<>> THEN FALSE
    ELSE LET s == lower(strip(sql))
         IN  IF count(s, ";") > 0
             THEN IF count(s, ";") > 1 THEN FALSE
                  ELSE IF rfind(s, ";") # Len(s) - 1 THEN FALSE
                  ELSE KeywordAndPrefixCheck(strip(RStripSet(s, {";"})))
             ELSE KeywordAndPrefixCheck(s)

(***************************************************************************)
(* Candidate statements the validator is applied to.                       *)
(***************************************************************************)
StmtFragments == {
    <<"s","e","l","e","c","t">>,
    <<"W","i","t","h">>,
    <<" ">>,
    <<";">>,
    <<"x">>,
    <<"d","r","o","p"," ">>,
    <<"U","P","D","A","T","E"," ">>,
    <<"c","o","p","y">>,
    <<"\n">> }

StmtInputs == {Concat(q) : q \in SeqsUpTo(StmtFragments, MaxStmtFrags)}

InitValidate ==
    /\ arg \in StmtInputs
    /\ ret = "none"
    /\ called = FALSE
    /\ use_llm = FALSE
    /\ Idle

CallValidate ==
    /\ ~called
    /\ ret' = is_select_only(arg)
    /\ called' = TRUE
    /\ UNCHANGED <<arg, use_llm, reqVars>>

SpecValidate == InitValidate /\ [][CallValidate]_vars


(***************************************************************************)
(* Claims about is_select_only, checked under SpecValidate.                *)
(***************************************************************************)
\* the statement holds a deny-listed keyword, in any letter case, as a token:
\* at the start or after whitespace, and followed by its space
HasDenyKeyword(sql) ==
    \E k \in DOMAIN DANGEROUS_SQL_KEYWORDS :
        \E i \in DOMAIN sql :
            /\ i = 1 \/ sql[i - 1] \in Whitespace
            /\ \A j \in 1..Len(DANGEROUS_SQL_KEYWORDS[k]) :
                /\ i + j - 1 <= Len(sql)
                /\ LowerChar(sql[i + j - 1]) = DANGEROUS_SQL_KEYWORDS[k][j]

\* the statement holds a deny-listed keyword with its space anywhere, in any
\* letter case
HasDenySubstring(sql) ==
    \E k \in DOMAIN DANGEROUS_SQL_KEYWORDS :
        \E i \in DOMAIN sql :
            \A j \in 1..Len(DANGEROUS_SQL_KEYWORDS[k]) :
                /\ i + j - 1 <= Len(sql)
                /\ LowerChar(sql[i + j - 1]) = DANGEROUS_SQL_KEYWORDS[k][j]

\* s neither starts nor ends with whitespace
IsTrimmed(s) == s = <<>> \/ (s[1] \notin Whitespace /\ s[Len(s)] \notin Whitespace)

\* the last character of the statement that is not whitespace ("" if none)
LastNonWs(sql) ==
    LET keep == {i \in DOMAIN sql : sql[i] \notin Whitespace}
    IN  IF keep = {} THEN "" ELSE sql[Max(keep)]

\* the first characters of the statement after leading whitespace, lower case
BeginsWith(sql, word) ==
    \E i \in DOMAIN sql :
        /\ \A j \in 1..(i - 1) : sql[j] \in Whitespace
        /\ \A j \in 1..Len(word) :
            /\ i + j - 1 <= Len(sql)
            /\ LowerChar(sql[i + j - 1]) = word[j]

\* C2: every candidate statement (a trimmed string) that holds a deny-listed
\* keyword as a space-terminated token, in any letter case and at any position,
\* is rejected by is_select_only.
C2_DenyKeywordRejected ==
    (called /\ IsTrimmed(arg) /\ HasDenyKeyword(arg)) => ret = FALSE

\* C3: is_select_only returns false for every statement with two or more ';'
\* (whatever its keywords), and for every statement with exactly one ';' that
\* is not its last non-whitespace character.
C3_SeparatorRule ==
    (/\ called
     /\ \/ count(arg, ";") >= 2
        \/ count(arg, ";") = 1 /\ LastNonWs(arg) # ";")
    => ret = FALSE

\* a statement that passes every other rule and is rejected for its two ';'
C3_Witness ==
    /\ called
    /\ count(arg, ";") >= 2
    /\ BeginsWith(arg, kw_select)
    /\ ~HasDenySubstring(arg)
    /\ ret = FALSE

\* C4: is_select_only returns true for every statement that begins, after
\* trimming and in any letter case, with select or with, holds no deny-listed
\* keyword, and holds at most one ';', which is then its last non-whitespace
\* character.
C4_ReadOnlyAllowed ==
    (/\ called
     /\ BeginsWith(arg, kw_select) \/ BeginsWith(arg, kw_with)
     /\ ~HasDenySubstring(arg)
     /\ \/ count(arg, ";") = 0
        \/ count(arg, ";") = 1 /\ LastNonWs(arg) = ";")
    => ret = TRUE

\* a mixed-case WITH statement with a trailing ';' followed by whitespace
C4_Witness ==
    /\ called
    /\ BeginsWith(arg, kw_with)
    /\ arg # lower(arg)
    /\ count(arg, ";") = 1
    /\ arg[Len(arg)] \in Whitespace
    /\ ret = TRUE

(***************************************************************************)
(* SQL Text Extractor: extract_sql.                                        *)
(***************************************************************************)
\* first position j >= i whose character is not whitespace (Len(s)+1 if none):
\* where a greedy \s* that starts at i stops
WsRunEnd(s, i) ==
    LET stop == {j \in i..Len(s) : s[j] \notin Whitespace}
    IN  IF stop = {} THEN Len(s) + 1 ELSE Min(stop)

\* first position j >= i holding a newline (Len(s)+1 if none): where a greedy
\* .* that starts at i stops, and where $ matches under re.MULTILINE
LineEnd(s, i) ==
    LET stop == {j \in i..Len(s) : s[j] = "\n"}
    IN  IF stop = {} THEN Len(s) + 1 ELSE Min(stop)

\* ^ under re.MULTILINE
AtLineStart(s, i) == i = 1 \/ s[i - 1] = "\n"

\* the markers whose presence triggers the HTML cleanup (line 123)
HtmlMarkers == { <<"<","h","t","m","l">>, <<"<","d","i","v">>, <<"<","p">> }

\* the alternatives of the tag pattern of line 125, lower case
HtmlTags == <<
    <<"<","p","r","e",">">>,
    <<"<","/","p","r","e",">">>,
    <<"<","c","o","d","e",">">>,
    <<"<","/","c","o","d","e",">">>,
    <<"<","d","i","v",">">>,
    <<"<","/","d","i","v",">">>,
    <<"<","p",">">>,
    <<"<","/","p",">">>,
    <<"<","s","p","a","n",">">>,
    <<"<","/","s","p","a","n",">">>,
    <<"<","h","t","m","l",">">>,
    <<"<","/","h","t","m","l",">">>,
    <<"<","b","o","d","y",">">>,
    <<"<","/","b","o","d","y",">">>,
    <<"<","h","e","a","d",">">>,
    <<"<","/","h","e","a","d",">">> >>

\* length of the tag matched at position i by the pattern of line 125
\* (re.IGNORECASE), 0 when none matches
TagLenAt(ls, i) ==
    LET hit == {k \in DOMAIN HtmlTags : StartsWithAt(ls, i, HtmlTags[k])}
    IN  IF hit = {} THEN 0 ELSE Len(HtmlTags[Min(hit)])

\* re.sub(<tag pattern>, "", text, flags=re.IGNORECASE), from position i on
RECURSIVE RemoveTagsFrom(_, _, _)
RemoveTagsFrom(s, ls, i) ==
    IF i > Len(s) THEN <<>>
    ELSE IF TagLenAt(ls, i) > 0 THEN RemoveTagsFrom(s, ls, i + TagLenAt(ls, i))
    ELSE <<s[i]>> \o RemoveTagsFrom(s, ls, i + 1)

\* lines 123-125
StripHtml(text) ==
    IF \E m \in HtmlMarkers : Contains(lower(text), m)
    THEN RemoveTagsFrom(text, lower(text), 1)
    ELSE text

fence == <<bt,bt,bt>>
fence_sql == <<bt,bt,bt,"s","q","l">>
fence_SQL == <<bt,bt,bt,"S","Q","L">>

\* positions at which "```" starts, at or after position i
FenceAtOrAfter(s, i) == {q \in i..Len(s) : StartsWithAt(s, q, fence)}

\* SQL_FENCE_RE matches at position i: "```sql" or "```SQL", the greedy \s*,
\* and a closing "```" somewhere after it
FenceMatchAt(s, i) ==
    /\ StartsWithAt(s, i, fence_sql) \/ StartsWithAt(s, i, fence_SQL)
    /\ FenceAtOrAfter(s, WsRunEnd(s, i + Len(fence_sql))) # {}

\* SQL_FENCE_RE.search(text) is not None
FenceFound(s) == \E i \in DOMAIN s : FenceMatchAt(s, i)

\* m.group(1) with a greedy (.*) in place of the lazy (.*?): up to the last
\* closing fence
FenceGroup_Greedy(s) ==
    LET i == Min({j \in DOMAIN s : FenceMatchAt(s, j)})
        p == WsRunEnd(s, i + Len(fence_sql))
        q == Max(FenceAtOrAfter(s, p))
    IN  SubSeq(s, p, q - 1)

\* m.group(1) of SQL_FENCE_RE.search(text): leftmost match, lazy (.*?)
FenceGroup(s) ==
    LET i == Min({j \in DOMAIN s : FenceMatchAt(s, j)})
        p == WsRunEnd(s, i + Len(fence_sql))
        q == Min(FenceAtOrAfter(s, p))
    IN  SubSeq(s, p, q - 1)

label_question == <<"q","u","e","s","t","i","o","n",":">>
label_sqlquery == <<"s","q","l","q","u","e","r","y",":">>

\* the pattern (?mi)^\s*<label>\s*.*$ matches at position i
LabelMatchAt(s, ls, i, label) ==
    /\ AtLineStart(s, i)
    /\ StartsWithAt(ls, WsRunEnd(s, i), label)

\* the position just after that match
LabelMatchEnd(s, i, label) ==
    LineEnd(s, WsRunEnd(s, WsRunEnd(s, i) + Len(label)))

\* re.sub(r'(?mi)^\s*<label>\s*.*$', '', s), from position i on
RECURSIVE RemoveLabelFrom(_, _, _, _)
RemoveLabelFrom(s, ls, i, label) ==
    IF i > Len(s) THEN <<>>
    ELSE IF LabelMatchAt(s, ls, i, label)
         THEN RemoveLabelFrom(s, ls, LabelMatchEnd(s, i, label), label)
         ELSE <<s[i]>> \o RemoveLabelFrom(s, ls, i + 1, label)

RemoveLabel(s, label) == RemoveLabelFrom(s, lower(s), 1, label)

\* the characters of sql.strip("` \n\r\t") (line 135)
FenceStripChars == {bt, " ", "\n", "\r", "\t"}

\* lines 131-136
CleanSql(sql) ==
    LET a == strip(RemoveLabel(sql, label_question))
        b == strip(RemoveLabel(a, label_sqlquery))
    IN  strip(StripSet(b, FenceStripChars))

\* lines 127-128
SelectBlock(text) == IF FenceFound(text) THEN FenceGroup(text) ELSE text

extract_sql(text) ==
    IF text = <<>> THEN <<>>
    ELSE CleanSql(SelectBlock(StripHtml(text)))

(***************************************************************************)
(* Raw model outputs the extractor is applied to.                          *)
(***************************************************************************)
RawFragments == {
    <<bt,bt,bt,"s","q","l">>,
    <<bt,bt,bt>>,
    <<bt>>,
    <<"\n">>,
    <<" ">>,
    <<"Q","u","e","s","t","i","o","n",":">>,
    <<"s","q","l","q","u","e","r","y",":">>,
    <<"x">>,
    <<"<","p",">">> }

RawInputs == {Concat(q) : q \in SeqsUpTo(RawFragments, MaxRawFrags)}

InitExtract ==
    /\ arg \in RawInputs
    /\ ret = "none"
    /\ called = FALSE
    /\ use_llm = FALSE
    /\ Idle

CallExtract ==
    /\ ~called
    /\ ret' = extract_sql(arg)
    /\ called' = TRUE
    /\ UNCHANGED <<arg, use_llm, reqVars>>

SpecExtract == InitExtract /\ [][CallExtract]_vars

(***************************************************************************)
(* Claims about extract_sql, checked under SpecExtract.                    *)
(***************************************************************************)
\* an opening fence tagged sql starts at position i and a closing fence follows
TaggedFenceAt(s, i) ==
    /\ \A j \in 1..3 : i + j - 1 <= Len(s) /\ s[i + j - 1] = bt
    /\ \/ i + 5 <= Len(s) /\ <<s[i + 3], s[i + 4], s[i + 5]>> = <<"s","q","l">>
       \/ i + 5 <= Len(s) /\ <<s[i + 3], s[i + 4], s[i + 5]>> = <<"S","Q","L">>
    /\ \E q \in (i + 6)..(Len(s) - 2) : <<s[q], s[q + 1], s[q + 2]>> = <<bt, bt, bt>>

HasTaggedFence(s) == \E i \in DOMAIN s : TaggedFenceAt(s, i)

\* the text between the first tagged opening fence and the first closing
\* fence after it
FirstBlockInner(s) ==
    LET i == Min({j \in DOMAIN s : TaggedFenceAt(s, j)})
        q == Min({r \in (i + 6)..(Len(s) - 2) :
                    <<s[r], s[r + 1], s[r + 2]>> = <<bt, bt, bt>>})
    IN  SubSeq(s, i + 6, q - 1)

\* three backticks in a row somewhere in s
HasFenceMarker(s) ==
    \E i \in 1..(Len(s) - 2) : <<s[i], s[i + 1], s[i + 2]>> = <<bt, bt, bt>>

\* some line of s begins, after optional whitespace, with the label
HasLabelLine(s, label) ==
    \E i \in DOMAIN s : \E j \in i..Len(s) :
        /\ i = 1 \/ s[i - 1] = "\n"
        /\ \A k \in i..(j - 1) : s[k] \in Whitespace
        /\ \A k \in 1..Len(label) :
            /\ j + k - 1 <= Len(s)
            /\ LowerChar(s[j + k - 1]) = label[k]

HasAnyLabelLine(s) ==
    HasLabelLine(s, label_question) \/ HasLabelLine(s, label_sqlquery)

\* r is s with only whitespace and backticks cut from its two ends
IsTrimOf(r, s) ==
    \E a \in 1..(Len(s) + 1) : \E b \in (a - 1)..Len(s) :
        /\ r = SubSeq(s, a, b)
        /\ \A i \in (1..(a - 1)) \cup ((b + 1)..Len(s)) :
               s[i] \in Whitespace \cup {bt}

\* C5 as stated: for raw text with a fenced block tagged sql, extract_sql
\* returns exactly the inner content of the first such block, trimmed, and no
\* backtick remains in the result.
C5_ExactInnerNoBackticks ==
    (called /\ HasTaggedFence(arg)) =>
        /\ ret = strip(FirstBlockInner(arg))
        /\ \A i \in DOMAIN ret : ret[i] # bt

\* C5 as amended: when the text, after the HTML tag cleanup, holds a fenced
\* block tagged sql, the result holds no triple-backtick fence marker and has
\* no leading or trailing whitespace; and when the inner content of the first
\* such block has no question:/sqlquery: label line, the result is that inner
\* content with only whitespace and backticks cut from its two ends.
C5_FencedBlockExtracted ==
    (called /\ HasTaggedFence(StripHtml(arg))) =>
        /\ ~HasFenceMarker(ret)
        /\ IsTrimmed(ret)
        /\ ~HasAnyLabelLine(FirstBlockInner(StripHtml(arg)))
             => IsTrimOf(ret, FirstBlockInner(StripHtml(arg)))

\* a tagged block whose content is returned with its ends cut
C5_Witness ==
    /\ called
    /\ HasTaggedFence(arg)
    /\ ret # <<>>
    /\ ret # FirstBlockInner(arg)
    /\ IsTrimOf(ret, FirstBlockInner(arg))

\* C6: whatever the raw input, the statement extract_sql returns holds no
\* triple-backtick fence delimiter and no remaining question: or sqlquery:
\* label prefix.
C6_NoFenceNoLabel ==
    called => (~HasFenceMarker(ret) /\ ~HasAnyLabelLine(ret))

(***************************************************************************)
(* Dynamic filter query builder of the /invoices handler.                  *)
(***************************************************************************)
\* request.args.get(name) is truthy: the parameter is supplied and not empty
Truthy(a, name) == name \in DOMAIN a /\ a[name] # <<>>

Digits == <<"0","1","2","3","4","5","6","7","8","9">>
IsDigit(c) == \E d \in DOMAIN Digits : Digits[d] = c
DigitValue(c) == (CHOOSE d \in DOMAIN Digits : Digits[d] = c) - 1

\* the digits of an int() literal: digits, single underscores between them
IsDigitRun(t) ==
    /\ t # <<>>
    /\ IsDigit(t[1]) /\ IsDigit(t[Len(t)])
    /\ \A i \in DOMAIN t : IsDigit(t[i]) \/ t[i] = "_"
    /\ \A i \in 1..(Len(t) - 1) : ~(t[i] = "_" /\ t[i + 1] = "_")

\* int(text) does not raise ValueError: whitespace, a sign, the digits
IsIntLiteral(text) ==
    LET t == strip(text)
    IN  /\ t # <<>>
        /\ IF t[1] \in {"+", "-"} THEN IsDigitRun(Tail(t)) ELSE IsDigitRun(t)

RECURSIVE DigitsValue(_, _)
DigitsValue(t, acc) ==
    IF t = <<>> THEN acc
    ELSE IF Head(t) = "_" THEN DigitsValue(Tail(t), acc)
    ELSE DigitsValue(Tail(t), 10 * acc + DigitValue(Head(t)))

\* int(text), for a text that IsIntLiteral
IntValue(text) ==
    LET t == strip(text)
    IN  IF t[1] = "-" THEN 0 - DigitsValue(Tail(t), 0)
        ELSE IF t[1] = "+" THEN DigitsValue(Tail(t), 0)
        ELSE DigitsValue(t, 0)

DEFAULT_LIMIT == 100

\* line 418 raises ValueError
LimitRaises(a) == "limit" \in DOMAIN a /\ ~IsIntLiteral(a["limit"])

\* line 418: int(request.args.get("limit", 100))
LimitOf(a) == IF "limit" \in DOMAIN a THEN IntValue(a["limit"]) ELSE DEFAULT_LIMIT

clause_vendor == <<"v",".","v","e","n","d","o","r","_","n","a","m","e"," ","I","L","I","K","E"," ","%","s">>
clause_date_from == <<"i",".","i","n","v","o","i","c","e","_","d","a","t","e"," ",">","="," ","%","s">>
clause_date_to == <<"i",".","i","n","v","o","i","c","e","_","d","a","t","e"," ","<","="," ","%","s">>
clause_min_total == <<"i",".","i","n","v","o","i","c","e","_","t","o","t","a","l"," ",">","="," ","%","s">>
clause_max_total == <<"i",".","i","n","v","o","i","c","e","_","t","o","t","a","l"," ","<","="," ","%","s">>
clause_search == <<
    "(","i",".","i","n","v","o","i","c","e","_","i","d",":",":","t","e","x","t"," ","I","L","I","K","E"," ","%","s"," ","O","R"," ",
    "c",".","c","u","s","t","o","m","e","r","_","n","a","m","e"," ","I","L","I","K","E"," ","%","s",")" >>
clause_vendor_head == <<"v",".","v","e","n","d","o","r","_","n","a","m","e"," ","I","L","I","K","E"," ">>
sql_head == <<
    "\n", " ", " ", " ", " ", " ", " ", " ", " ", " ", " ", " ", " ", "S", "E", "L",
    "E", "C", "T", " ", "i", ".", "i", "d", ",", " ", "i", ".", "i", "n", "v", "o",
    "i", "c", "e", "_", "i", "d", ",", " ", "i", ".", "i", "n", "v", "o", "i", "c",
    "e", "_", "d", "a", "t", "e", ",", " ", "i", ".", "i", "n", "v", "o", "i", "c",
    "e", "_", "t", "o", "t", "a", "l", ",", " ", "v", ".", "v", "e", "n", "d", "o",
    "r", "_", "n", "a", "m", "e", ",", " ", "c", ".", "c", "u", "s", "t", "o", "m",
    "e", "r", "_", "n", "a", "m", "e", "\n", " ", " ", " ", " ", " ", " ", " ", " ",
    " ", " ", " ", " ", "F", "R", "O", "M", " ", "i", "n", "v", "o", "i", "c", "e",
    "s", " ", "i", "\n", " ", " ", " ", " ", " ", " ", " ", " ", " ", " ", " ", " ",
    "L", "E", "F", "T", " ", "J", "O", "I", "N", " ", "v", "e", "n", "d", "o", "r",
    "s", " ", "v", " ", "O", "N", " ", "i", ".", "v", "e", "n", "d", "o", "r", "_",
    "i", "d", " ", "=", " ", "v", ".", "i", "d", "\n", " ", " ", " ", " ", " ", " ",
    " ", " ", " ", " ", " ", " ", "L", "E", "F", "T", " ", "J", "O", "I", "N", " ",
    "c", "u", "s", "t", "o", "m", "e", "r", "s", " ", "c", " ", "O", "N", " ", "i",
    ".", "c", "u", "s", "t", "o", "m", "e", "r", "_", "i", "d", " ", "=", " ", "c",
    ".", "i", "d", "\n", " ", " ", " ", " ", " ", " ", " ", " ", " ", " ", " ", " " >>
sql_tail == <<
    "\n", " ", " ", " ", " ", " ", " ", " ", " ", " ", " ", " ", " ", "O", "R", "D",
    "E", "R", " ", "B", "Y", " ", "i", ".", "i", "n", "v", "o", "i", "c", "e", "_",
    "d", "a", "t", "e", " ", "D", "E", "S", "C", " ", "N", "U", "L", "L", "S", " ",
    "L", "A", "S", "T", "\n", " ", " ", " ", " ", " ", " ", " ", " ", " ", " ", " ",
    " ", "L", "I", "M", "I", "T", " ", "%", "s", ";", "\n", " ", " ", " ", " ", " ",
    " ", " ", " " >>
where_kw == <<"W","H","E","R","E"," ">>
and_sep == <<" ","A","N","D"," ">>

\* f"%{value}%"
Like(value) == <<"%">> \o value \o <<"%">>

\* the vendor predicate with the value formatted into the template
WhereClauses_Interpolated(a) ==
    (IF Truthy(a, "vendor")
     THEN <<clause_vendor_head \o <<"'">> \o Like(a["vendor"]) \o <<"'">> >>
     ELSE <<>>)
    \o (IF Truthy(a, "date_from") THEN <<clause_date_from>> ELSE <<>>)
    \o (IF Truthy(a, "date_to") THEN <<clause_date_to>> ELSE <<>>)
    \o (IF Truthy(a, "min_total") THEN <<clause_min_total>> ELSE <<>>)
    \o (IF Truthy(a, "max_total") THEN <<clause_max_total>> ELSE <<>>)
    \o (IF Truthy(a, "search") THEN <<clause_search>> ELSE <<>>)

\* lines 420-440: the predicates appended, in the order of the if statements
WhereClauses(a) ==
    (IF Truthy(a, "vendor") THEN <<clause_vendor>> ELSE <<>>)
    \o (IF Truthy(a, "date_from") THEN <<clause_date_from>> ELSE <<>>)
    \o (IF Truthy(a, "date_to") THEN <<clause_date_to>> ELSE <<>>)
    \o (IF Truthy(a, "min_total") THEN <<clause_min_total>> ELSE <<>>)
    \o (IF Truthy(a, "max_total") THEN <<clause_max_total>> ELSE <<>>)
    \o (IF Truthy(a, "search") THEN <<clause_search>> ELSE <<>>)

\* the search filter binding its value once for its two placeholders
SearchParams_Once(a) ==
    IF Truthy(a, "search") THEN <<Like(a["search"])>> ELSE <<>>

\* the search filter binds its value twice (line 440)
SearchParams(a) ==
    IF Truthy(a, "search") THEN <<Like(a["search"]), Like(a["search"])>> ELSE <<>>

\* the arguments of the search filter appended ahead of the others
Params_SearchFirst(a) ==
    SearchParams(a)
    \o (IF Truthy(a, "vendor") THEN <<Like(a["vendor"])>> ELSE <<>>)
    \o (IF Truthy(a, "date_from") THEN <<a["date_from"]>> ELSE <<>>)
    \o (IF Truthy(a, "date_to") THEN <<a["date_to"]>> ELSE <<>>)
    \o (IF Truthy(a, "min_total") THEN <<a["min_total"]>> ELSE <<>>)
    \o (IF Truthy(a, "max_total") THEN <<a["max_total"]>> ELSE <<>>)
    \o <<LimitOf(a)>>

\* lines 420-440 and 453: the arguments appended, the limit last
Params(a) ==
    (IF Truthy(a, "vendor") THEN <<Like(a["vendor"])>> ELSE <<>>)
    \o (IF Truthy(a, "date_from") THEN <<a["date_from"]>> ELSE <<>>)
    \o (IF Truthy(a, "date_to") THEN <<a["date_to"]>> ELSE <<>>)
    \o (IF Truthy(a, "min_total") THEN <<a["min_total"]>> ELSE <<>>)
    \o (IF Truthy(a, "max_total") THEN <<a["max_total"]>> ELSE <<>>)
    \o SearchParams(a)
    \o <<LimitOf(a)>>

\* sep.join(parts)
RECURSIVE Join(_, _)
Join(sep, parts) ==
    IF parts = <<>> THEN <<>>
    ELSE IF Len(parts) = 1 THEN parts[1]
    ELSE parts[1] \o sep \o Join(sep, Tail(parts))

\* line 442
WhereSql(clauses) ==
    IF clauses # <<>> THEN where_kw \o Join(and_sep, clauses) ELSE <<>>

\* lines 444-452: the f-string
Template(where_sql) == sql_head \o where_sql \o sql_tail

(***************************************************************************)
(* Requests.                                                               *)
(***************************************************************************)
\* values a caller may supply for each query parameter of /invoices
ArgValues(name) ==
    CASE name = "vendor" -> {<<>>, <<"A","c","m","e">>, <<"%","s">>}
      [] name = "date_from" -> {<<>>, <<"2","0","2","4","-","0","1","-","0","1">>}
      [] name = "date_to" -> {<<"2","0","2","4","-","1","2","-","3","1">>}
      [] name = "min_total" -> {<<"1","0">>}
      [] name = "max_total" -> {<<"9","9",".","5">>}
      [] name = "search" -> {<<"I","N","V","-","1">>, <<"'",";","-","-">>}
      [] name = "limit" -> {<<"5","0">>, <<" ","7">>, <<"a","b","c">>, <<>>}

ArgNames == {"vendor", "date_from", "date_to", "min_total", "max_total",
             "search", "limit"}

\* the query strings: any subset of the parameters, each with one of its values
RECURSIVE ArgsOver(_)
ArgsOver(names) ==
    IF names = {} THEN {NoArgs}
    ELSE LET n == CHOOSE x \in names : TRUE
             rest == ArgsOver(names \ {n})
         IN  rest \cup {[k \in DOMAIN a \cup {n} |-> IF k = n THEN v ELSE a[k]] :
                            a \in rest, v \in ArgValues(n)}

ArgSets == ArgsOver(ArgNames)

\* bodies posted to /chat-with-data: not JSON; JSON that is no object; an
\* object without "question"; with an empty one; with one that is no string
\* (a number other than 0, a non-empty list); with a question
Payloads == {"invalid_json", "not_object", "no_question", "empty_question",
             "question_not_string", "question"}

\* what the SQL generator may return
GenFragments == {
    <<bt,bt,bt,"s","q","l","\n">>,
    <<"\n",bt,bt,bt>>,
    <<"S","E","L","E","C","T"," ","1">>,
    <<";">>,
    <<"d","r","o","p"," ">>,
    <<"x"," ">> }

GenOutputs == {Concat(q) : q \in SeqsUpTo(GenFragments, MaxGenFrags)}

\* the handlers that run fixed aggregations, and the statements each executes
FixedRoutes == {"route_stats", "invoice_trends", "vendors_top10",
                "category_spend", "cash_outflow"}
QueriesOf(r) == IF r = "route_stats" THEN 3 ELSE 1

(***************************************************************************)
(* The handlers, step by step.                                             *)
(***************************************************************************)
\* return jsonify(...), code: outside any try block (chat_with_data)
Respond(code, why) ==
    /\ status' = code
    /\ cause' = why
    /\ outcome' = "response"
    /\ pc' = "done"

\* an exception inside a try block that has a finally clause: the except
\* clause of a route handler answers 500; run_select has none and the
\* exception propagates once the finally clause has run
Raise(why) ==
    /\ cause' = why
    /\ IF route = "run_select"
       THEN outcome' = "raised" /\ status' = status
       ELSE outcome' = "response" /\ status' = 500
    /\ pc' = "finally"

\* ---- /chat-with-data ----------------------------------------------------
\* lines 472-475: the request arrives; the configuration test
ChatBegin ==
    /\ pc = "idle"
    /\ \E p \in Payloads :
        /\ route' = "chat_with_data"
        /\ payload' = p
        /\ IF ~use_llm
           THEN Respond(400, "not_configured")
           ELSE /\ pc' = "chat_payload"
                /\ UNCHANGED <<status, cause, outcome>>
        /\ UNCHANGED <<fnVars, use_llm, args, raw_output, sql_text, validated, ran,
                       reached, where_clauses, params, inv_sql, conn, cur,
                       queries_left, body_sql>>

\* lines 477-480: get_json(force=True) answers 400 on a body that is not
\* JSON; payload.get raises AttributeError, outside the try block, on JSON
\* that is no object, which the framework answers with 500
ChatPayload ==
    /\ pc = "chat_payload"
    /\ CASE payload = "invalid_json" -> Respond(400, "bad_json")
         [] payload = "not_object" -> Respond(500, "bad_payload")
         [] payload \in {"no_question", "empty_question"} ->
                Respond(400, "no_question")
         [] OTHER -> /\ pc' = "chat_generate"
                     /\ UNCHANGED <<status, cause, outcome>>
    /\ UNCHANGED <<fnVars, use_llm, route, args, payload, raw_output, sql_text,
                   validated, ran, reached, where_clauses, params, inv_sql,
                   conn, cur, queries_left, body_sql>>

\* line 483: sql_generator.invoke returns some text, or raises
ChatGenerate ==
    /\ pc = "chat_generate"
    /\ reached' = reached \cup {"generate"}
    /\ \/ \E out \in GenOutputs :
            /\ raw_output' = out
            /\ pc' = "chat_extract"
            /\ UNCHANGED <<status, cause, outcome>>
       \/ /\ Respond(500, "generator")
          /\ UNCHANGED raw_output
    /\ UNCHANGED <<fnVars, use_llm, route, args, payload, sql_text, validated,
                   ran, where_clauses, params, inv_sql, conn, cur,
                   queries_left, body_sql>>

\* line 484
ChatExtract ==
    /\ pc = "chat_extract"
    /\ reached' = reached \cup {"extract"}
    /\ sql_text' = extract_sql(raw_output)
    /\ pc' = "chat_validate"
    /\ UNCHANGED <<fnVars, use_llm, route, args, payload, raw_output, validated,
                   ran, where_clauses, params, inv_sql, conn, cur,
                   queries_left, outcome, status, body_sql, cause>>

\* the gate without its return: the handler goes on to the runner whatever
\* is_select_only answered
ChatValidate_NoReturn ==
    /\ pc = "chat_validate"
    /\ reached' = reached \cup {"validate"}
    /\ validated' = Append(validated,
                           [stmt |-> sql_text, ok |-> is_select_only(sql_text)])
    /\ pc' = "chat_run"
    /\ UNCHANGED <<status, cause, outcome, body_sql>>
    /\ UNCHANGED <<fnVars, use_llm, route, args, payload, raw_output, sql_text,
                   ran, where_clauses, params, inv_sql, conn, cur,
                   queries_left>>

\* lines 488-489: the gate
ChatValidate ==
    /\ pc = "chat_validate"
    /\ reached' = reached \cup {"validate"}
    /\ validated' = Append(validated,
                           [stmt |-> sql_text, ok |-> is_select_only(sql_text)])
    /\ IF ~is_select_only(sql_text)
       THEN /\ Respond(400, "unsafe")
            /\ body_sql' = <<sql_text>>
       ELSE /\ pc' = "chat_run"
            /\ UNCHANGED <<status, cause, outcome, body_sql>>
    /\ UNCHANGED <<fnVars, use_llm, route, args, payload, raw_output, sql_text,
                   ran, where_clauses, params, inv_sql, conn, cur,
                   queries_left>>

\* lines 491-502: sql_runner_tool.invoke returns, or raises
ChatRun ==
    /\ pc = "chat_run"
    /\ reached' = reached \cup {"run"}
    /\ ran' = Append(ran, sql_text)
    /\ \/ /\ Respond(200, "none")
          /\ body_sql' = <<sql_text>>
       \/ /\ Respond(500, "runner")
          /\ UNCHANGED body_sql
    /\ UNCHANGED <<fnVars, use_llm, route, args, payload, raw_output, sql_text,
                   validated, where_clauses, params, inv_sql, conn, cur,
                   queries_left>>

\* ---- /invoices ----------------------------------------------------------
\* lines 407-418: the request arrives; the parameters are read, and int()
\* of the limit may raise inside the try block
InvoicesBegin ==
    /\ pc = "idle"
    /\ \E a \in ArgSets :
        /\ route' = "invoices"
        /\ args' = a
        /\ IF LimitRaises(a)
           THEN /\ cause' = "bad_limit"
                /\ outcome' = "response"
                /\ status' = 500
                /\ pc' = "finally"
           ELSE /\ pc' = "inv_build"
                /\ UNCHANGED <<status, cause, outcome>>
        /\ UNCHANGED <<fnVars, use_llm, payload, raw_output, sql_text, validated,
                       ran, reached, where_clauses, params, inv_sql, conn, cur,
                       queries_left, body_sql>>

\* lines 420-453
InvoicesBuild ==
    /\ pc = "inv_build"
    /\ where_clauses' = WhereClauses(args)
    /\ params' = Params(args)
    /\ inv_sql' = Template(WhereSql(WhereClauses(args)))
    /\ queries_left' = 1
    /\ pc' = "connect"
    /\ UNCHANGED <<fnVars, use_llm, route, args, payload, raw_output, sql_text,
                   validated, ran, reached, conn, cur, outcome, status,
                   body_sql, cause>>

\* ---- the fixed aggregations and run_select -------------------------------
\* lines 209-212, 257-260, 289-292, 318-321, 349-356
FixedBegin ==
    /\ pc = "idle"
    /\ \E r \in FixedRoutes :
        /\ route' = r
        /\ queries_left' = QueriesOf(r)
        /\ pc' = "connect"
        /\ UNCHANGED <<fnVars, use_llm, args, payload, raw_output, sql_text,
                       validated, ran, reached, where_clauses, params, inv_sql,
                       conn, cur, outcome, status, body_sql, cause>>

\* lines 173-179
RunSelectBegin ==
    /\ pc = "idle"
    /\ route' = "run_select"
    /\ queries_left' = 1
    /\ pc' = "connect"
    /\ UNCHANGED <<fnVars, use_llm, args, payload, raw_output, sql_text,
                   validated, ran, reached, where_clauses, params, inv_sql,
                   conn, cur, outcome, status, body_sql, cause>>

\* ---- the database steps every one of them goes through -------------------
\* conn = get_conn(): lines 181, 214, 262, 294, 323, 358, 455
DbConnect ==
    /\ pc = "connect"
    /\ \/ /\ conn' = "open"
          /\ pc' = "cursor"
          /\ UNCHANGED <<status, cause, outcome>>
       \/ /\ Raise("connect")
          /\ UNCHANGED conn
    /\ UNCHANGED <<fnVars, use_llm, route, args, payload, raw_output, sql_text,
                   validated, ran, reached, where_clauses, params, inv_sql,
                   cur, queries_left, body_sql>>

\* cur = conn.cursor(...): lines 182, 215, 263, 295, 324, 359, 456
DbCursor ==
    /\ pc = "cursor"
    /\ \/ /\ cur' = "open"
          /\ pc' = "execute"
          /\ UNCHANGED <<status, cause, outcome>>
       \/ /\ Raise("cursor")
          /\ UNCHANGED cur
    /\ UNCHANGED <<fnVars, use_llm, route, args, payload, raw_output, sql_text,
                   validated, ran, reached, where_clauses, params, inv_sql,
                   conn, queries_left, body_sql>>

\* cur.execute(...): lines 183, 216, 226, 233, 264, 296, 325, 393, 457
DbExecute ==
    /\ pc = "execute"
    /\ \/ /\ pc' = "fetch"
          /\ UNCHANGED <<status, cause, outcome>>
       \/ Raise("execute")
    /\ UNCHANGED <<fnVars, use_llm, route, args, payload, raw_output, sql_text,
                   validated, ran, reached, where_clauses, params, inv_sql,
                   conn, cur, queries_left, body_sql>>

\* the rows are fetched and converted; after the last statement the handler
\* returns its answer: lines 184-192, 224-244, 275-276, 304-305, 335-336,
\* 394-395, 458-459
DbFetch ==
    /\ pc = "fetch"
    /\ \/ /\ queries_left > 1
          /\ queries_left' = queries_left - 1
          /\ pc' = "execute"
          /\ UNCHANGED <<status, cause, outcome>>
       \/ /\ queries_left = 1
          /\ queries_left' = 0
          /\ IF route = "run_select"
             THEN outcome' = "returned" /\ status' = status
             ELSE outcome' = "response" /\ status' = 200
          /\ pc' = "finally"
          /\ UNCHANGED cause
       \/ /\ Raise("fetch")
          /\ UNCHANGED queries_left
    /\ UNCHANGED <<fnVars, use_llm, route, args, payload, raw_output, sql_text,
                   validated, ran, reached, where_clauses, params, inv_sql,
                   conn, cur, body_sql>>

\* a finally clause that closes the connection only inside the cursor's branch
Finally_NestedClose ==
    /\ pc = "finally"
    /\ cur' = IF cur # "None" THEN "closed" ELSE cur
    /\ conn' = IF cur # "None" /\ conn # "None" THEN "closed" ELSE conn
    /\ pc' = "done"
    /\ UNCHANGED <<fnVars, use_llm, route, args, payload, raw_output, sql_text,
                   validated, ran, reached, where_clauses, params, inv_sql,
                   queries_left, outcome, status, body_sql, cause>>

\* the finally clause: lines 193-203, 248-254, 280-286, 309-315, 340-346,
\* 399-405, 463-469; then control is back with the caller
Finally ==
    /\ pc = "finally"
    /\ cur' = IF cur # "None" THEN "closed" ELSE cur
    /\ conn' = IF conn # "None" THEN "closed" ELSE conn
    /\ pc' = "done"
    /\ UNCHANGED <<fnVars, use_llm, route, args, payload, raw_output, sql_text,
                   validated, ran, reached, where_clauses, params, inv_sql,
                   queries_left, outcome, status, body_sql, cause>>

\* ---- /health -------------------------------------------------------------
\* lines 514-522: get_conn() and conn.close() in a try with no finally
Health ==
    /\ pc = "idle"
    /\ route' = "health"
    /\ \/ /\ conn' = "closed"
          /\ status' = 200
          /\ cause' = "none"
       \/ /\ conn' = "None"
          /\ status' = 500
          /\ cause' = "connect"
    /\ outcome' = "response"
    /\ pc' = "done"
    /\ UNCHANGED <<fnVars, use_llm, args, payload, raw_output, sql_text,
                   validated, ran, reached, where_clauses, params, inv_sql,
                   cur, queries_left, body_sql>>

\* every request starts from fresh locals: nothing is kept between requests
NextRequest ==
    /\ pc = "done"
    /\ pc' = "idle"
    /\ route' = "none"
    /\ args' = NoArgs
    /\ payload' = "none"
    /\ raw_output' = <<>>
    /\ sql_text' = <<>>
    /\ validated' = <<>>
    /\ ran' = <<>>
    /\ reached' = {}
    /\ where_clauses' = <<>>
    /\ params' = <<>>
    /\ inv_sql' = <<>>
    /\ conn' = "None"
    /\ cur' = "None"
    /\ queries_left' = 0
    /\ outcome' = "none"
    /\ status' = 0
    /\ body_sql' = <<>>
    /\ cause' = "none"
    /\ UNCHANGED <<fnVars, use_llm>>

\* lines 82-101: use_llm is settled once, when the module is loaded
Init ==
    /\ use_llm \in BOOLEAN
    /\ NotCalled
    /\ Idle

Next ==
    \/ InvoicesBegin
    \/ InvoicesBuild
    \/ ChatBegin
    \/ ChatPayload
    \/ ChatGenerate
    \/ ChatExtract
    \/ ChatValidate
    \/ ChatRun
    \/ FixedBegin
    \/ RunSelectBegin
    \/ DbConnect
    \/ DbCursor
    \/ DbExecute
    \/ DbFetch
    \/ Finally
    \/ Health
    \/ NextRequest

Spec == Init /\ [][Next]_vars

(***************************************************************************)
(* Claims about the handlers, checked under Spec.                          *)
(***************************************************************************)
\* C1: in chat_with_data the SQL runner is invoked only with the statement
\* extract_sql returned, and only after is_select_only answered true for that
\* statement; when is_select_only answers false the handler responds 400 with
\* the extracted statement in generated_sql and the runner is not invoked.
C1_RunnerOnlyAfterGate ==
    /\ \A i \in DOMAIN ran :
        /\ "extract" \in reached
        /\ ran[i] = sql_text
        /\ \E j \in DOMAIN validated :
               validated[j] = [stmt |-> ran[i], ok |-> TRUE]
    /\ \A j \in DOMAIN validated :
        ~validated[j].ok =>
            /\ validated[j].stmt = sql_text
            /\ ran = <<>>
            /\ pc = "done"
            /\ status = 400
            /\ body_sql = <<sql_text>>

\* a fenced answer whose extracted statement passed the gate and was run
C1_Witness ==
    /\ route = "chat_with_data"
    /\ ran = <<sql_text>>
    /\ sql_text # raw_output
    /\ status = 200

\* occurrences of the placeholder %s in a template
CountPlaceholders(t) ==
    Cardinality({i \in 1..(Len(t) - 1) : t[i] = "%" /\ t[i + 1] = "s"})

FilterNames == {"vendor", "date_from", "date_to", "min_total", "max_total",
                "search"}

\* the /invoices handler has built its statement and its arguments
InvoicesBuilt == route = "invoices" /\ pc \notin {"idle", "inv_build"} /\ cause # "bad_limit"

\* C7: for every subset of the filters supplied to /invoices, the template
\* holds as many %s placeholders as there are bound arguments, and with no
\* filter present it holds no WHERE clause.
C7_PlaceholdersMatchParams ==
    InvoicesBuilt =>
        /\ CountPlaceholders(inv_sql) = Len(params)
        /\ (\A n \in FilterNames : ~Truthy(args, n)) => ~Contains(inv_sql, where_kw)

\* vendor and search both present: four arguments with the limit
C7_Witness ==
    /\ InvoicesBuilt
    /\ Truthy(args, "vendor")
    /\ Truthy(args, "search")
    /\ DOMAIN args = {"vendor", "search"}
    /\ Len(params) = 4

\* the same filters are present in both query strings
SamePresence(a, b) == \A n \in FilterNames : Truthy(a, n) <=> Truthy(b, n)

\* C8: filter values and the limit are never formatted into the template of
\* /invoices: any request with the same present filters, whatever its values,
\* yields the identical template; the values are in the bound arguments, and
\* the limit is the last of them.
C8_ValuesOnlyBound ==
    (route = "invoices" /\ pc = "execute") =>
        /\ \A b \in ArgSets :
               (~LimitRaises(b) /\ SamePresence(args, b))
                   => Template(WhereSql(WhereClauses(b))) = inv_sql
        /\ \A n \in FilterNames :
               Truthy(args, n) =>
                   \E i \in 1..(Len(params) - 1) :
                       params[i] \in {args[n], Like(args[n])}
        /\ params[Len(params)] = LimitOf(args)

\* a vendor value that is itself a placeholder, and a search value of SQL text
C8_Witness ==
    /\ route = "invoices"
    /\ pc = "execute"
    /\ Truthy(args, "vendor")
    /\ args["vendor"] = <<"%","s">>
    /\ Truthy(args, "search")
    /\ args["search"] = <<"'",";","-","-">>
    /\ "limit" \in DOMAIN args

\* C9: when run_select or a database-backed route handler hands control back,
\* on any path, no connection and no cursor it acquired is still open.
C9_ResourcesReleased ==
    pc = "done" => (conn # "open" /\ cur # "open")

\* run_select: the cursor could not be created; the connection was closed
\* before the exception reached the caller
C9_Witness ==
    /\ pc = "done"
    /\ route = "run_select"
    /\ outcome = "raised"
    /\ cause = "cursor"
    /\ conn = "closed"
    /\ cur = "None"

\* C10: an error response of /invoices or /chat-with-data has status 400 when
\* its cause is caller input (a missing question, a limit that is no integer)
\* or a rejection by the validator, and status 500 only when its cause is a
\* connection or statement-execution failure.
C10_StatusByCause ==
    (pc = "done" /\ route \in {"invoices", "chat_with_data"}) =>
        /\ cause \in {"no_question", "bad_limit", "unsafe"} => status = 400
        /\ status = 500 =>
               cause \in {"connect", "cursor", "execute", "fetch", "generator",
                          "runner"}

\* the bodies in which the question field is missing or malformed
BadQuestionBodies == {"invalid_json", "not_object", "no_question",
                      "empty_question", "question_not_string"}

\* C11: in chat_with_data, when the LLM path is not configured (whatever the
\* body), or when the question field of the body is missing or malformed, none
\* of the generator, extract_sql, is_select_only and the runner is reached in
\* that request and the response has status 400.
C11_InputErrorsAnswered400 ==
    (route = "chat_with_data" /\ (~use_llm \/ payload \in BadQuestionBodies)) =>
        /\ reached = {}
        /\ ran = <<>>
        /\ validated = <<>>
        /\ pc = "done" => status = 400

(***************************************************************************)
(* Result rows: to_json_serializable and the conversion loop of run_select. *)
(***************************************************************************)
\* number of columns of a result row
MaxColumns == 2

\* the decimal digits of n, zero-padded to width w (the %0wd of isoformat)
RECURSIVE Pow10(_)
Pow10(k) == IF k = 0 THEN 1 ELSE 10 * Pow10(k - 1)
ZeroPad(n, w) == [i \in 1..w |-> Digits[((n \div Pow10(w - i)) % 10) + 1]]

\* the values psycopg2 hands back for a column, tagged with their Python
\* type: Decimal (unscaled * 10^-scale) for NUMERIC, datetime for TIMESTAMP
\* [TZ] (offset: minutes east of UTC, when aware), date for DATE, and the
\* scalars int, float, str, bool, None
DecimalValue(u, sc) == [type |-> "Decimal", unscaled |-> u, scale |-> sc]
FloatValue(u, sc) == [type |-> "float", unscaled |-> u, scale |-> sc]
DatetimeValue(y, mo, d, h, mi, sec, us, aw, off) ==
    [type |-> "datetime", year |-> y, month |-> mo, day |-> d, hour |-> h,
     minute |-> mi, second |-> sec, microsecond |-> us, aware |-> aw,
     offset |-> off]
DateValue(y, mo, d) == [type |-> "date", year |-> y, month |-> mo, day |-> d]
IntValueOf(n) == [type |-> "int", val |-> n]
StrValue(t) == [type |-> "str", val |-> t]
BoolValue(b) == [type |-> "bool", val |-> b]
NoneValue == [type |-> "NoneType"]

\* float(value) of a Decimal: the same number, as a float; two floats are
\* equal when they are the same number, so trailing zeros of the fraction
\* are dropped (rounding to the nearest binary float is left out)
RECURSIVE Normalized(_, _)
Normalized(u, sc) ==
    IF sc > 0 /\ u % 10 = 0 THEN Normalized(u \div 10, sc - 1)
    ELSE FloatValue(u, sc)

\* datetime.isoformat(): YYYY-MM-DDTHH:MM:SS[.ffffff][+HH:MM]
isoformat(v) ==
    ZeroPad(v.year, 4) \o <<"-">> \o ZeroPad(v.month, 2) \o <<"-">>
    \o ZeroPad(v.day, 2) \o <<"T">> \o ZeroPad(v.hour, 2) \o <<":">>
    \o ZeroPad(v.minute, 2) \o <<":">> \o ZeroPad(v.second, 2)
    \o (IF v.microsecond # 0 THEN <<".">> \o ZeroPad(v.microsecond, 6) ELSE <<>>)
    \o (IF v.aware
        THEN LET m == IF v.offset < 0 THEN 0 - v.offset ELSE v.offset
             IN  <<IF v.offset < 0 THEN "-" ELSE "+">>
                 \o ZeroPad(m \div 60, 2) \o <<":">> \o ZeroPad(m % 60, 2)
        ELSE <<>>)

\* lines 61-77: isinstance(value, decimal.Decimal), isinstance(value,
\* datetime) with datetime the class datetime.datetime (line 14), else as-is
to_json_serializable(value) ==
    IF value.type = "Decimal" THEN Normalized(value.unscaled, value.scale)
    ELSE IF value.type = "datetime" THEN StrValue(isoformat(value))
    ELSE value

\* lines 186-191 (and 224, 275, 304, 335, 394, 458): every column of a row
ConvertRow(row) == [k \in DOMAIN row |-> to_json_serializable(row[k])]

ColumnValues == {
    DecimalValue(1050, 2), DecimalValue(7, 0), DecimalValue(0 - 5, 1),
    DatetimeValue(2024, 1, 31, 9, 5, 0, 0, FALSE, 0),
    DatetimeValue(2024, 12, 1, 23, 59, 59, 250000, TRUE, 330),
    DatetimeValue(987, 6, 15, 0, 0, 7, 0, TRUE, 0 - 300),
    DateValue(2024, 1, 31),
    IntValueOf(7), FloatValue(5, 1), StrValue(<<"x">>), BoolValue(TRUE),
    NoneValue }

RowInputs == SeqsUpTo(ColumnValues, MaxColumns)

InitConvert ==
    /\ arg \in RowInputs
    /\ ret = "none"
    /\ called = FALSE
    /\ use_llm = FALSE
    /\ Idle

CallConvert ==
    /\ ~called
    /\ ret' = ConvertRow(arg)
    /\ called' = TRUE
    /\ UNCHANGED <<arg, use_llm, reqVars>>

SpecConvert == InitConvert /\ [][CallConvert]_vars

(***************************************************************************)
(* Claims about to_json_serializable, checked under SpecConvert.           *)
(***************************************************************************)
\* t is n digits
AllDigits(t) == \A i \in DOMAIN t : IsDigit(t[i])

\* an ISO-8601 calendar date, alone or followed by T and a time of day
IsIso8601(t) ==
    /\ Len(t) >= 10
    /\ AllDigits(SubSeq(t, 1, 4)) /\ t[5] = "-"
    /\ AllDigits(SubSeq(t, 6, 7)) /\ t[8] = "-"
    /\ AllDigits(SubSeq(t, 9, 10))
    /\ Len(t) > 10 =>
        /\ Len(t) >= 19
        /\ t[11] = "T"
        /\ AllDigits(SubSeq(t, 12, 13)) /\ t[14] = ":"
        /\ AllDigits(SubSeq(t, 15, 16)) /\ t[17] = ":"
        /\ AllDigits(SubSeq(t, 18, 19))

TemporalTypes == {"datetime", "date"}

\* C12: for every column value of a row, to_json_serializable gives a float of
\* the same number for a Decimal, an ISO-8601 string for every temporal value
\* (a date as well as a datetime), and every other scalar unchanged.
C12_ConversionByType ==
    called =>
        \A k \in DOMAIN arg :
            IF arg[k].type = "Decimal"
            THEN /\ ret[k].type = "float"
                 /\ ret[k].unscaled * Pow10(arg[k].scale)
                        = arg[k].unscaled * Pow10(ret[k].scale)
            ELSE IF arg[k].type \in TemporalTypes
            THEN ret[k].type = "str" /\ IsIso8601(ret[k].val)
            ELSE ret[k] = arg[k]

(***************************************************************************)
(* The /invoices builder applied to query strings, with the order in which *)
(* the caller wrote the parameters.                                        *)
(***************************************************************************)
\* number of name=value pairs of a query string
MaxQueryPairs == 3

\* the name=value pairs a caller may write; a name may be repeated
QueryPairs == {
    <<"vendor", <<"A","c","m","e">> >>,
    <<"vendor", <<>> >>,
    <<"date_from", <<"2","0","2","4","-","0","1","-","0","1">> >>,
    <<"date_to", <<"2","0","2","4","-","1","2","-","3","1">> >>,
    <<"min_total", <<"1","0">> >>,
    <<"max_total", <<"9","9",".","5">> >>,
    <<"search", <<"I","N","V","-","1">> >>,
    <<"limit", <<"5","0">> >>,
    <<"limit", <<"a","b","c">> >> }

\* every parameter supplied, in the reverse of the order the handler reads them
FullQuery == <<
    <<"limit", <<"5","0">> >>,
    <<"search", <<"I","N","V","-","1">> >>,
    <<"max_total", <<"9","9",".","5">> >>,
    <<"min_total", <<"1","0">> >>,
    <<"date_to", <<"2","0","2","4","-","1","2","-","3","1">> >>,
    <<"date_from", <<"2","0","2","4","-","0","1","-","0","1">> >>,
    <<"vendor", <<"A","c","m","e">> >> >>

QueryInputs == SeqsUpTo(QueryPairs, MaxQueryPairs) \cup {FullQuery}

\* request.args of a query string: get(name) answers the first value written
\* for the name
ArgsOf(q) ==
    [n \in {q[i][1] : i \in DOMAIN q} |->
        q[Min({i \in DOMAIN q : q[i][1] = n})][2]]

\* lines 412-453: the locals of the handler when it reaches get_conn(), or the
\* ValueError of line 418
BuildQuery(q) ==
    LET a == ArgsOf(q)
    IN  IF LimitRaises(a)
        THEN [raised |-> TRUE, where_clauses |-> <<>>, params |-> <<>>,
              sql |-> <<>>]
        ELSE [raised |-> FALSE, where_clauses |-> WhereClauses(a),
              params |-> Params(a),
              sql |-> Template(WhereSql(WhereClauses(a)))]

InitBuild ==
    /\ arg \in QueryInputs
    /\ ret = "none"
    /\ called = FALSE
    /\ use_llm = FALSE
    /\ Idle

CallBuild ==
    /\ ~called
    /\ ret' = BuildQuery(arg)
    /\ called' = TRUE
    /\ UNCHANGED <<arg, use_llm, reqVars>>

SpecBuild == InitBuild /\ [][CallBuild]_vars

(***************************************************************************)
(* Claims about the builder, checked under SpecBuild.                      *)
(***************************************************************************)
\* the order the claim fixes
FixedOrder == <<"vendor", "date_from", "date_to", "min_total", "max_total",
                "search", "limit">>
Rank(n) == CHOOSE i \in DOMAIN FixedOrder : FixedOrder[i] = n

\* the predicate of a filter
ClauseOf(n) ==
    CASE n = "vendor" -> clause_vendor
      [] n = "date_from" -> clause_date_from
      [] n = "date_to" -> clause_date_to
      [] n = "min_total" -> clause_min_total
      [] n = "max_total" -> clause_max_total
      [] n = "search" -> clause_search

\* positions of the placeholders of a template
PlaceholderPositions(t) ==
    {i \in 1..(Len(t) - 1) : t[i] = "%" /\ t[i + 1] = "s"}

\* the filter whose predicate, as it stands in the template, contains the
\* placeholder at position p; the placeholder of LIMIT belongs to no predicate
InClauseOf(t, p, n) ==
    \E st \in Max({1, p - Len(ClauseOf(n)) + 1})..p :
        StartsWithAt(t, st, ClauseOf(n))
Owner(t, p) ==
    IF \E n \in FilterNames : InClauseOf(t, p, n)
    THEN CHOOSE n \in FilterNames : InClauseOf(t, p, n)
    ELSE "limit"

\* the value a filter binds: partial match for vendor and search
BoundValue(a, n) == IF n \in {"vendor", "search"} THEN Like(a[n]) ELSE a[n]

\* the orders in which the caller may write the same pairs
Reorderings(q) ==
    {[i \in DOMAIN q |-> q[f[i]]] : f \in Permutations(DOMAIN q)}
DistinctNames(q) ==
    \A i, j \in DOMAIN q : q[i][1] = q[j][1] => i = j

\* C13: the /invoices builder appends predicates and arguments in the order
\* vendor, date_from, date_to, min_total, max_total, search (two arguments),
\* limit, whatever the order the caller wrote the parameters in: the k-th
\* placeholder of the template is bound to the value of the filter whose
\* predicate contains it, and vendor=Acme with limit=50 gives exactly the
\* arguments %Acme%, 50.
C13_FixedOrderBinding ==
    (called /\ ~ret.raised) =>
        LET a == ArgsOf(arg)
            n == Len(ret.params)
            at == PlaceholderPositions(ret.sql)
            owner == [p \in at |-> Owner(ret.sql, p)]
        IN  /\ Cardinality(at) = n
            /\ \A p \in at :
                LET k == Cardinality({r \in at : r <= p})
                IN  IF owner[p] = "limit"
                    THEN k = n /\ ret.params[k] = LimitOf(a)
                    ELSE /\ k < n
                         /\ Truthy(a, owner[p])
                         /\ ret.params[k] = BoundValue(a, owner[p])
            /\ \A p, r \in at : p <= r => Rank(owner[p]) <= Rank(owner[r])
            /\ \A f \in FilterNames :
                Cardinality({p \in at : owner[p] = f})
                    = IF ~Truthy(a, f) THEN 0 ELSE IF f = "search" THEN 2 ELSE 1
            /\ DistinctNames(arg) =>
                \A q \in Reorderings(arg) :
                    /\ WhereClauses(ArgsOf(q)) = ret.where_clauses
                    /\ Params(ArgsOf(q)) = ret.params
            /\ {arg[i] : i \in DOMAIN arg}
                    = {<<"vendor", <<"A","c","m","e">> >>, <<"limit", <<"5","0">> >>}
                => /\ n = 2
                   /\ ret.params[1] = <<"%","A","c","m","e","%">>
                   /\ ret.params[2] = 50

\* the caller wrote search, then date_to, then vendor: four filter arguments
\* and the default limit
C13_Witness ==
    /\ called
    /\ ~ret.raised
    /\ Len(arg) = 3
    /\ arg[1][1] = "search"
    /\ arg[2][1] = "date_to"
    /\ arg[3][1] = "vendor"
    /\ Truthy(ArgsOf(arg), "vendor")
    /\ Len(ret.params) = 5

====
